---------------------------- MODULE Spec2Model ----------------------------
(***************************************************************************)
(* PricePal: product normalization, fuzzy match ranking and price          *)
(* comparison, as implemented by the three program variants                *)
(*   src/price-comp.py, src/price_compare.py and src/price_comp2.py.       *)
(*                                                                         *)
(* Text is modelled by TLA+ strings (Len, SubSeq and \o act on them).      *)
(* A Python float that stands for a price is modelled by the integer       *)
(* number of thousandths of a dollar it denotes ("0.01" and "0.010" both   *)
(* parse to 10), so that equality and order of parsed prices are those of  *)
(* the floats.  Python's None is the value None below.                     *)
(***************************************************************************)
EXTENDS Integers, Sequences, FiniteSets, TLC

None == "<None>"

Max(a, b) == IF a >= b THEN a ELSE b

Abs(x) == IF x < 0 THEN -x ELSE x

Ch(s, i) == SubSeq(s, i, i)

(***************************************************************************)
(* str.lower(), str.strip() and the `in` operator on strings.              *)
(***************************************************************************)
LowerChar(c) ==
    CASE c = "A" -> "a" [] c = "B" -> "b" [] c = "C" -> "c" [] c = "D" -> "d"
      [] c = "E" -> "e" [] c = "F" -> "f" [] c = "G" -> "g" [] c = "H" -> "h"
      [] c = "I" -> "i" [] c = "J" -> "j" [] c = "K" -> "k" [] c = "L" -> "l"
      [] c = "M" -> "m" [] c = "N" -> "n" [] c = "O" -> "o" [] c = "P" -> "p"
      [] c = "Q" -> "q" [] c = "R" -> "r" [] c = "S" -> "s" [] c = "T" -> "t"
      [] c = "U" -> "u" [] c = "V" -> "v" [] c = "W" -> "w" [] c = "X" -> "x"
      [] c = "Y" -> "y" [] c = "Z" -> "z" [] OTHER -> c

RECURSIVE Lower(_)
Lower(s) == IF s = "" THEN "" ELSE LowerChar(Ch(s, 1)) \o Lower(Tail(s))

IsSpace(c) == c = " "

RECURSIVE LStrip(_)
LStrip(s) == IF s # "" /\ IsSpace(Ch(s, 1)) THEN LStrip(Tail(s)) ELSE s

RECURSIVE RStrip(_)
RStrip(s) ==
    IF s # "" /\ IsSpace(Ch(s, Len(s)))
    THEN RStrip(SubSeq(s, 1, Len(s) - 1))
    ELSE s

Strip(s) == RStrip(LStrip(s))

\* q in s
Contains(q, s) ==
    \E i \in 1..(Len(s) - Len(q) + 1) : SubSeq(s, i, i + Len(q) - 1) = q

(***************************************************************************)
(* float(x).  The result is [exc |-> "", val |-> thousandths] or           *)
(* [exc |-> "ValueError" | "TypeError", val |-> 0].  Accepted text:        *)
(* optional blanks, optional sign, digits with an optional fraction of at  *)
(* most three digits.                                                      *)
(***************************************************************************)
IsDigit(c) == c \in {"0", "1", "2", "3", "4", "5", "6", "7", "8", "9"}

DigitVal(c) ==
    CASE c = "0" -> 0 [] c = "1" -> 1 [] c = "2" -> 2 [] c = "3" -> 3
      [] c = "4" -> 4 [] c = "5" -> 5 [] c = "6" -> 6 [] c = "7" -> 7
      [] c = "8" -> 8 [] c = "9" -> 9

AllDigits(s) == \A i \in 1..Len(s) : IsDigit(Ch(s, i))

RECURSIVE DigitsVal(_)
DigitsVal(s) ==
    IF s = "" THEN 0
    ELSE 10 * DigitsVal(SubSeq(s, 1, Len(s) - 1)) + DigitVal(Ch(s, Len(s)))

DotPos(s) ==
    IF \E i \in 1..Len(s) : Ch(s, i) = "."
    THEN CHOOSE i \in 1..Len(s) :
            Ch(s, i) = "." /\ \A j \in 1..(i - 1) : Ch(s, j) # "."
    ELSE 0

\* the thousandths denoted by the unsigned decimal s, or -1 when s is none
UnsignedMills(s) ==
    LET d  == DotPos(s)
        ip == IF d = 0 THEN s ELSE SubSeq(s, 1, d - 1)
        fp == IF d = 0 THEN "" ELSE SubSeq(s, d + 1, Len(s))
        f3 == SubSeq(fp \o "000", 1, 3)
    IN  IF /\ AllDigits(ip)
           /\ AllDigits(fp)
           /\ Len(ip) + Len(fp) > 0
           /\ Len(fp) <= 3
        THEN 1000 * DigitsVal(ip) + DigitsVal(f3)
        ELSE -1

Float(x) ==
    IF x = None THEN [exc |-> "TypeError", val |-> 0]
    ELSE LET t    == Strip(x)
             neg  == t # "" /\ Ch(t, 1) = "-"
             sgn  == t # "" /\ Ch(t, 1) \in {"-", "+"}
             body == IF sgn THEN Tail(t) ELSE t
             m    == UnsignedMills(body)
         IN  IF m < 0 THEN [exc |-> "ValueError", val |-> 0]
             ELSE [exc |-> "", val |-> IF neg THEN -m ELSE m]

(***************************************************************************)
(* datetime.strptime(x, '%Y-%m-%d %H:%M:%S').  The result is               *)
(* [exc |-> "", val |-> <<day, second>>], the day counted in months of 31  *)
(* days and the second of the day, which After orders as datetime's > does,*)
(* or [exc |-> "ValueError" | "TypeError", val |-> <<0, 0>>].              *)
(* Accepted text: YYYY-MM-DD HH:MM:SS with every field zero-padded.        *)
(***************************************************************************)
IsLeap(y) == (y % 4 = 0 /\ y % 100 # 0) \/ y % 400 = 0

DaysIn(y, mo) ==
    IF mo = 2 THEN (IF IsLeap(y) THEN 29 ELSE 28)
    ELSE IF mo \in {4, 6, 9, 11} THEN 30 ELSE 31

Strptime(x) ==
    IF x = None THEN [exc |-> "TypeError", val |-> <<0, 0>>]
    ELSE IF \/ Len(x) # 19
            \/ Ch(x, 5) # "-" \/ Ch(x, 8) # "-" \/ Ch(x, 11) # " "
            \/ Ch(x, 14) # ":" \/ Ch(x, 17) # ":"
            \/ \E i \in {1, 2, 3, 4, 6, 7, 9, 10, 12, 13, 15, 16, 18, 19} :
                   ~IsDigit(Ch(x, i))
    THEN [exc |-> "ValueError", val |-> <<0, 0>>]
    ELSE LET y  == DigitsVal(SubSeq(x, 1, 4))
             mo == DigitsVal(SubSeq(x, 6, 7))
             d  == DigitsVal(SubSeq(x, 9, 10))
             h  == DigitsVal(SubSeq(x, 12, 13))
             mi == DigitsVal(SubSeq(x, 15, 16))
             sc == DigitsVal(SubSeq(x, 18, 19))
         IN  IF \/ y < 1 \/ mo < 1 \/ mo > 12 \/ d < 1 \/ d > DaysIn(y, mo)
                \/ h > 23 \/ mi > 59 \/ sc > 59
             THEN [exc |-> "ValueError", val |-> <<0, 0>>]
             ELSE [exc |-> "",
                   val |-> <<(y * 12 + (mo - 1)) * 31 + (d - 1),
                             (h * 60 + mi) * 60 + sc>>]

\* a > b of two datetimes
After(a, b) == a[1] > b[1] \/ (a[1] = b[1] /\ a[2] > b[2])

(***************************************************************************)
(* thefuzz's fuzz.ratio(a, b): the normalized Indel similarity             *)
(* 200 * LCS(a, b) / (len(a) + len(b)), rounded to the nearest integer     *)
(* (ties to even, Python's round); 100 for two empty strings.              *)
(***************************************************************************)
RECURSIVE LCSRow(_, _, _, _, _)
LCSRow(a, b, i, prev, cur) ==
    \* prev, cur: rows i-1 and i of the table, entry j+1 holding column j
    IF Len(cur) = Len(b) + 1 THEN cur
    ELSE LET j == Len(cur)
             v == IF Ch(a, i) = Ch(b, j)
                  THEN prev[j] + 1
                  ELSE Max(prev[j + 1], cur[j])
         IN  LCSRow(a, b, i, prev, Append(cur, v))

RECURSIVE LCSRows(_, _, _, _)
LCSRows(a, b, i, prev) ==
    IF i > Len(a) THEN prev
    ELSE LCSRows(a, b, i + 1, LCSRow(a, b, i, prev, <<0>>))

LCSLen(a, b) == LCSRows(a, b, 1, [j \in 1..(Len(b) + 1) |-> 0])[Len(b) + 1]

\* round(n / d) for n >= 0, d > 0, ties to even
RoundHalfEven(n, d) ==
    LET q == n \div d
        r == n % d
    IN  IF 2 * r < d THEN q
        ELSE IF 2 * r > d THEN q + 1
        ELSE IF q % 2 = 0 THEN q ELSE q + 1

FuzzRatio(a, b) ==
    IF Len(a) + Len(b) = 0 THEN 100
    ELSE RoundHalfEven(200 * LCSLen(a, b), Len(a) + Len(b))

(***************************************************************************)
(* Product: the dataclass of the three variants.  Fields a variant does    *)
(* not set hold None.                                                      *)
(***************************************************************************)
Product(name, price, store, sku, brand, unit) ==
    [name |-> name, price |-> price, store |-> store,
     sku |-> sku, brand |-> brand, unit |-> unit]

(***************************************************************************)
(* Match ranking.  A list of products is a list of references: the model   *)
(* holds a match list as the sequence of the catalog positions of its      *)
(* elements.                                                               *)
(***************************************************************************)
TopK == 10

DefaultThreshold == 65

\* ratio with the containment test on the name as stored (no lower())
ratio_name_as_stored(query, name) ==
    IF Contains(query, name) THEN 100
    ELSE FuzzRatio(query, Lower(name))

\* the fuzzy ratio alone, without the substring rule
ratio_fuzzy_only(query, name) == FuzzRatio(query, Lower(name))

\* the `ratio` the filtering loop assigns to a product; query is lower-cased
ratio(query, name) ==
    IF Contains(query, Lower(name)) THEN 100
    ELSE FuzzRatio(query, Lower(name))

\* the key of the final sorted(...): lambda x: fuzz.ratio(query, x.name.lower())
SortKey(query, name) == FuzzRatio(query, Lower(name))

\* the filter with the default threshold in place of the parameter
PassesDefault(r, threshold) == r >= DefaultThreshold

\* the filter of the loop: if ratio >= threshold
Passes(r, threshold) == r >= threshold

\* the `ratio` of every product of the catalog, in catalog order
Ratios(query, products) ==
    [i \in 1..Len(products) |-> ratio(query, products[i].name)]

\* the list `matches` the loop builds, in catalog order
Matches(query, products, threshold) ==
    LET r == Ratios(query, products)
    IN  SelectSeq([i \in 1..Len(products) |-> i],
                  LAMBDA i : Passes(r[i], threshold))

\* descending by key, equal keys keep their order
RECURSIVE SortedReverse(_, _)
SortedReverse(idxs, key) ==
    IF idxs = <<>> THEN <<>>
    ELSE LET best == CHOOSE k \in 1..Len(idxs) :
                        /\ \A m \in 1..Len(idxs) : key[idxs[m]] <= key[idxs[k]]
                        /\ \A m \in 1..(k - 1) : key[idxs[m]] < key[idxs[k]]
             rest == [m \in 1..(Len(idxs) - 1) |->
                        IF m < best THEN idxs[m] ELSE idxs[m + 1]]
         IN  <<idxs[best]>> \o SortedReverse(rest, key)

\* sorted(idxs, key=..., reverse=True); the arguments are evaluated once
Sorted(idxs, key) ==
    CHOOSE r \in {SortedReverse(v[1], v[2]) : v \in {<<idxs, key>>}} : TRUE

Take(s, n) == SubSeq(s, 1, IF Len(s) < n THEN Len(s) ELSE n)

\* every name of the catalog is lower-cased in place
products_lowered_by_ranking(query0, products) ==
    [i \in 1..Len(products) |-> [products[i] EXCEPT !.name = Lower(@)]]

\* the list `products` after a ranking operation has run on it: the loop
\* reads product.name.lower(), a new string; `matches`, sorted(...) and [:10]
\* are new lists
products_after_ranking(query0, products) == products

\* price_comp2.py, WFPricesFetcher.find_matches / TJPricesFetcher.find_matches
find_matches(query0, products, threshold) ==
    LET query == Lower(query0)
        key   == [i \in 1..Len(products) |-> SortKey(query, products[i].name)]
    IN  Sorted(Matches(query, products, threshold), key)

\* price-comp.py and price_compare.py, EnhancedPriceComparer._find_matches
_find_matches(query0, products, threshold) ==
    Take(find_matches(query0, products, threshold), TopK)

(***************************************************************************)
(* Row normalization.  A raw row is a function from field names to text    *)
(* or None (csv.DictReader gives None to a field the line is too short     *)
(* for).  The outcome of normalizing one row is                            *)
(*   [exc |-> "", out |-> <<product>>]   a product,                        *)
(*   [exc |-> "", out |-> <<>>]          None / continue: the row is       *)
(*                                       skipped,                          *)
(*   [exc |-> e,  out |-> <<>>]          exception e leaves the row's      *)
(*                                       handler.                          *)
(***************************************************************************)
Get(row, key, default) == IF key \in DOMAIN row THEN row[key] ELSE default

Accept(product) == [exc |-> "", out |-> <<product>>]

Skip == [exc |-> "", out |-> <<>>]

Raise(e) == [exc |-> e, out |-> <<>>]

\* bool(x) of a field value: None and '' are falsy
Truthy(x) == x # None /\ x # ""

meaningful_keywords ==
    {"olive", "oil", "organic", "tuna", "virgin", "extra virgin", "white",
     "potato", "chips", "anchovy", "couscous", "rice", "garlic"}

\* all(...) in place of any(...)
AllKeywords(item_title) ==
    \A keyword \in meaningful_keywords : Contains(keyword, item_title)

\* any(keyword in item_title for keyword in meaningful_keywords)
AnyKeyword(item_title) ==
    \E keyword \in meaningful_keywords : Contains(keyword, item_title)

\* price-comp.py, StoreDataLoader._parse_row(row, store)
pc_parse_row(row, store) ==
    LET f     == Float(Get(row, "retail_price", "0"))
        price == f.val
        title == Get(row, "item_title", "")
    IN  IF f.exc # "" THEN Skip                  \* except (ValueError, TypeError)
        ELSE IF store = "WF" /\ price = 10 /\ title = None
        THEN Raise("AttributeError")             \* None.lower()
        ELSE IF store = "WF" /\ price = 10 /\ ~AnyKeyword(Lower(title))
        THEN Skip
        ELSE IF store = "TJ" /\ price <= 10 THEN Skip
        ELSE IF title = None THEN Raise("AttributeError")   \* None.strip()
        ELSE Accept(Product(Strip(title), price, store,
                            Get(row, "sku", None), None, None))

\* regular_price or sale_price or incremental_price
RegularFirst(a, b, c) == IF c # 0 THEN c ELSE IF b # 0 THEN b ELSE a

\* incremental_price or sale_price or regular_price
FirstNonZero(a, b, c) == IF a # 0 THEN a ELSE IF b # 0 THEN b ELSE c

\* price_compare.py, _parse_wf_row, and the loop body of price_comp2.py,
\* WFPricesFetcher._load_csv; handled is the except clause around it
WFRow(row) ==
    LET regular     == Float(Get(row, "regularPrice", "0"))
        sale        == Float(Get(row, "salePrice", "0"))
        incremental == Float(Get(row, "incrementalSalePrice", "0"))
        firstExc    == IF regular.exc # "" THEN regular.exc
                       ELSE IF sale.exc # "" THEN sale.exc
                       ELSE incremental.exc
        price       == FirstNonZero(incremental.val, sale.val, regular.val)
    IN  IF firstExc # "" THEN Raise(firstExc)
        ELSE IF price = 0 THEN Skip
        ELSE IF "name" \notin DOMAIN row THEN Raise("KeyError")
        ELSE Accept(Product(row["name"], price, "WF", None,
                            Get(row, "brand", None), Get(row, "uom", None)))

\* except (ValueError, KeyError): return None / continue
Handled(r) == IF r.exc \in {"ValueError", "KeyError"} THEN Skip ELSE r

pcmp_parse_wf_row(row) == WFRow(row)

\* the placeholder test of price_compare.py and price_comp2.py
IsPlaceholderText(retail_price) == ~Truthy(retail_price) \/ retail_price = "0.01"

\* price_compare.py, StoreDataLoader._parse_tj_row
pcmp_parse_tj_row(row) ==
    IF IsPlaceholderText(Get(row, "retail_price", None)) THEN Skip
    ELSE LET f == Float(row["retail_price"])
         IN  IF f.exc = "ValueError" THEN Skip
             ELSE IF "item_title" \notin DOMAIN row THEN Skip   \* KeyError
             ELSE Accept(Product(row["item_title"], f.val, "TJ", None, None, None))

\* price_compare.py, StoreDataLoader._parse_row(row, store)
pcmp_parse_row(row, store) ==
    IF store = "WF" THEN Handled(pcmp_parse_wf_row(row))
    ELSE Handled(pcmp_parse_tj_row(row))

\* price_comp2.py, WFPricesFetcher._load_csv: one iteration of the row loop
pc2_wf_row(row) == Handled(WFRow(row))

\* price_comp2.py, TJPricesFetcher._load_csv: one iteration of the row loop, up
\* to the price it keeps for the row's title
pc2_tj_row(row) ==
    IF "item_title" \notin DOMAIN row THEN Raise("KeyError")
    ELSE IF IsPlaceholderText(Get(row, "retail_price", None)) THEN Skip
    ELSE LET f == Float(row["retail_price"])
         IN  IF f.exc = "ValueError" THEN Skip
             ELSE Accept(Product(row["item_title"], f.val, "TJ", None, None, None))

(***************************************************************************)
(* price-comp.py: loading a catalog.                                       *)
(***************************************************************************)
\* nothing is dropped
_keep_all(products) == products

\* the last product of each (name, price) pair is kept in place of the first
_keep_last(products) ==
    LET n    == Len(products)
        kept == SelectSeq([i \in 1..n |-> i],
                          LAMBDA i : \A j \in (i + 1)..n :
                              \/ products[j].name # products[i].name
                              \/ products[j].price # products[i].price)
    IN  [k \in 1..Len(kept) |-> products[kept[k]]]

\* StoreDataLoader._remove_duplicates: the first product of every
\* (name, price) pair, in the order of first occurrence
_remove_duplicates(products) ==
    LET n    == Len(products)
        kept == SelectSeq([i \in 1..n |-> i],
                          LAMBDA i : \A j \in 1..(i - 1) :
                              \/ products[j].name # products[i].name
                              \/ products[j].price # products[i].price)
    IN  [k \in 1..Len(kept) |-> products[kept[k]]]

\* StoreDataLoader.load_data (the second definition, which replaces the
\* first): the products of the rows, deduplicated; [] when a row's exception
\* reaches `except Exception`
load_data(rows, store_name) ==
    LET outcome  == [i \in 1..Len(rows) |-> pc_parse_row(rows[i], store_name)]
        accepted == SelectSeq([i \in 1..Len(rows) |-> i],
                              LAMBDA i : outcome[i].out # <<>>)
        products == [k \in 1..Len(accepted) |-> outcome[accepted[k]].out[1]]
    IN  IF \E i \in 1..Len(rows) : outcome[i].exc # "" THEN <<>>
        ELSE _remove_duplicates(products)

(***************************************************************************)
(* The loaders of price_compare.py and price_comp2.py.  The outcome of a   *)
(* load is [exit |-> FALSE, products |-> the catalog], or                  *)
(* [exit |-> TRUE, products |-> <<>>] when an exception reaches the        *)
(* loader's `except Exception` and the process ends with sys.exit(1).      *)
(***************************************************************************)
Loaded(products) == [exit |-> FALSE, products |-> products]

Exited == [exit |-> TRUE, products |-> <<>>]

\* the products of the rows' outcomes, in the order of the rows; the process
\* exits when an exception left a row's handler
ProductsOf(outcome) ==
    LET accepted == SelectSeq([i \in 1..Len(outcome) |-> i],
                              LAMBDA i : outcome[i].out # <<>>)
    IN  IF \E i \in 1..Len(outcome) : outcome[i].exc # "" THEN Exited
        ELSE Loaded([k \in 1..Len(accepted) |-> outcome[accepted[k]].out[1]])

\* price_compare.py, StoreDataLoader.load_data
pcmp_load_data(rows, store_name) ==
    ProductsOf([i \in 1..Len(rows) |-> pcmp_parse_row(rows[i], store_name)])

\* price_comp2.py, WFPricesFetcher._load_csv
WFPricesFetcher_load_csv(rows) ==
    ProductsOf([i \in 1..Len(rows) |-> pc2_wf_row(rows[i])])

default_inserted_at == "2000-01-01 00:00:00"

\* the position of title among the entries of temp_products, 0 when absent
EntryOf(temp_products, title) ==
    IF \E k \in 1..Len(temp_products) : temp_products[k].title = title
    THEN CHOOSE k \in 1..Len(temp_products) : temp_products[k].title = title
    ELSE 0

\* The steps of one iteration of the row loop of TJPricesFetcher._load_csv.
\* temp_products is the dict as the sequence of its entries
\* [title, price, date] in insertion order; the result of a step is
\* [exc |-> the exception that leaves the loop, temp |-> the dict after it].
\* strptime(new) > strptime(old), the left operand evaluated first
TJNewer(temp_products, entry, k, new, old) ==
    IF new.exc # "" THEN [exc |-> new.exc, temp |-> temp_products]
    ELSE IF old.exc # "" THEN [exc |-> old.exc, temp |-> temp_products]
    ELSE IF After(new.val, old.val)
    THEN [exc |-> "", temp |-> [temp_products EXCEPT ![k] = entry]]
    ELSE [exc |-> "", temp |-> temp_products]

\* if title not in temp_products or <row's date> > <the entry's date>
TJUpdate(temp_products, entry, k) ==
    IF k = 0 THEN [exc |-> "", temp |-> Append(temp_products, entry)]
    ELSE TJNewer(temp_products, entry, k,
                 Strptime(entry.date), Strptime(temp_products[k].date))

\* a row that is passed over removes the entry kept for its title
TJEntrySkipRemoves(temp_products, row, r) ==
    IF r.exc # "" THEN [exc |-> r.exc, temp |-> temp_products]
    ELSE IF r.out = <<>>
    THEN [exc |-> "",
          temp |-> SelectSeq(temp_products,
                             LAMBDA e : e.title # row["item_title"])]
    ELSE TJUpdate(temp_products,
                  [title |-> r.out[1].name, price |-> r.out[1].price,
                   date |-> Get(row, "inserted_at", default_inserted_at)],
                  EntryOf(temp_products, r.out[1].name))

\* r is what the row's title and price come to
TJEntry(temp_products, row, r) ==
    IF r.exc # "" THEN [exc |-> r.exc, temp |-> temp_products]
    ELSE IF r.out = <<>> THEN [exc |-> "", temp |-> temp_products]
    ELSE TJUpdate(temp_products,
                  [title |-> r.out[1].name, price |-> r.out[1].price,
                   date |-> Get(row, "inserted_at", default_inserted_at)],
                  EntryOf(temp_products, r.out[1].name))

TJRowStep(temp_products, row) ==
    TJEntry(temp_products, row, pc2_tj_row(row))

\* the row loop from row i on
RECURSIVE TJRows_from(_, _, _)
TJRows_from(rows, i, temp_products) ==
    IF i > Len(rows) THEN [exc |-> "", temp |-> temp_products]
    ELSE LET step == CHOOSE r \in {TJRowStep(v[1], v[2]) :
                                      v \in {<<temp_products, rows[i]>>}} : TRUE
         IN  IF step.exc # "" THEN step
             ELSE TJRows_from(rows, i + 1, step.temp)

\* price_comp2.py, TJPricesFetcher._load_csv
TJPricesFetcher_load_csv(rows) ==
    LET end == TJRows_from(rows, 1, <<>>)
    IN  IF end.exc # "" THEN Exited
        ELSE Loaded([k \in 1..Len(end.temp) |->
                        Product(end.temp[k].title, end.temp[k].price, "TJ",
                                None, None, None)])

(***************************************************************************)
(* compare_items: selection and aggregation.  A chosen product is held as  *)
(* its position in the store's catalog, 0 standing for None.               *)
(***************************************************************************)
\* what _display_matches can return for a match list (price-comp.py,
\* price_compare.py): None, or any of the matches
_display_matches(matches) == {0} \cup {matches[k] : k \in 1..Len(matches)}

\* what _select_product can return for a match list (price_comp2.py)
_select_product(matches) ==
    IF matches = <<>> THEN {0}
    ELSE IF Len(matches) = 1 THEN {matches[1]}
    ELSE {0} \cup {matches[k] : k \in 1..(IF Len(matches) < TopK
                                             THEN Len(matches) ELSE TopK)}

\* the first product of the catalog is offered whatever the matches are
SelectionOfFirst(variant, matches) == {0, 1}

SelectionOf(variant, matches) ==
    IF variant = "price_comp2" THEN _select_product(matches)
    ELSE _display_matches(matches)

\* the first product of the catalog is added whichever product was chosen
AddPriceFirst(total, products, choice) ==
    IF choice # 0 THEN total + products[1].price ELSE total

\* an absent choice is charged the first product of the catalog
AddPriceAbsent(total, products, choice) ==
    IF choice # 0 THEN total + products[choice].price
    ELSE total + products[1].price

\* total += product.price, if product
AddPrice(total, products, choice) ==
    IF choice # 0 THEN total + products[choice].price ELSE total

\* the signed difference in place of abs(...)
SavingsSigned(tjt, wft) == tjt - wft

\* savings = abs(tj_total - wf_total)
Savings(tjt, wft) == Abs(tjt - wft)

\* <= in place of <
CheaperStoreLe(tjt, wft) == IF tjt <= wft THEN "TJ" ELSE "WF"

\* cheaper_store = "TJ" if tj_total < wf_total else "WF"
CheaperStore(tjt, wft) == IF tjt < wft THEN "TJ" ELSE "WF"

PriceComparison(tjt, wft, items) ==
    [tj_total |-> tjt, wf_total |-> wft, savings |-> Savings(tjt, wft),
     cheaper_store |-> CheaperStore(tjt, wft), items |-> items]

(***************************************************************************)
(* display_comparison: the rows of the results table.  A product of an     *)
(* item pair is its position in the store's catalog, 0 standing for None.  *)
(***************************************************************************)
TwoDigits(n) == IF n < 10 THEN "0" \o ToString(n) ELSE ToString(n)

\* f"${x:.2f}" of a price in thousandths (prices of whole cents print
\* exactly; a half cent is rounded to the even cent)
Money(x) ==
    LET cents == RoundHalfEven(Abs(x), 10)
    IN  (IF x < 0 /\ cents > 0 THEN "$-" ELSE "$")
        \o ToString(cents \div 100) \o "." \o TwoDigits(cents % 100)

\* Product.display_price
display_price(product) ==
    IF Truthy(product.unit) THEN Money(product.price) \o "/" \o product.unit
    ELSE Money(product.price)

\* Product.display_name (no loader sets a size)
display_name(product) ==
    IF Truthy(product.brand) /\ product.brand \notin {"PRODUCE", "MEAT", "SEAFOOD"}
    THEN product.brand \o " " \o product.name
    ELSE product.name

\* f"{prod.display_name} - {prod.display_price}" if prod else "Not found"
info(products, prod) ==
    IF prod # 0
    THEN display_name(products[prod]) \o " - " \o display_price(products[prod])
    ELSE "Not found"

\* a pair with an absent side is given a zero amount
savings_text_zero(tj_products_, tj_prod, wf_products_, wf_prod) ==
    IF tj_prod # 0 /\ wf_prod # 0
    THEN Money(Abs(tj_products_[tj_prod].price - wf_products_[wf_prod].price))
         \o " (" \o (IF tj_products_[tj_prod].price < wf_products_[wf_prod].price
                     THEN "TJ" ELSE "WF") \o ")"
    ELSE Money(0) \o " (WF)"

\* the Savings cell of an item pair
savings_text(tj_products_, tj_prod, wf_products_, wf_prod) ==
    IF tj_prod # 0 /\ wf_prod # 0
    THEN Money(Abs(tj_products_[tj_prod].price - wf_products_[wf_prod].price))
         \o " (" \o (IF tj_products_[tj_prod].price < wf_products_[wf_prod].price
                     THEN "TJ" ELSE "WF") \o ")"
    ELSE "N/A"

\* the row of an item pair: Item, Trader Joe's, Whole Foods, Savings
item_row(tj_products_, tj_prod, wf_products_, wf_prod) ==
    <<IF tj_prod # 0 THEN tj_products_[tj_prod].name
      ELSE IF wf_prod # 0 THEN wf_products_[wf_prod].name ELSE "Unknown",
      info(tj_products_, tj_prod),
      info(wf_products_, wf_prod),
      savings_text(tj_products_, tj_prod, wf_products_, wf_prod)>>

\* the TOTAL row
total_row(r) ==
    <<"TOTAL", Money(r.tj_total), Money(r.wf_total),
      Money(r.savings) \o " (" \o r.cheaper_store \o ")">>

\* the rows display_comparison adds to the table for a PriceComparison
display_comparison(tj_products_, wf_products_, r) ==
    [k \in 1..Len(r.items) |->
        item_row(tj_products_, r.items[k][1], wf_products_, r.items[k][2])]
    \o <<total_row(r)>>

(***************************************************************************)
(* State.                                                                  *)
(*   rk*: one call of a ranking operation on a catalog.                    *)
(*   ps*: one raw row and the outcome of normalizing it.                   *)
(*   mn*: main of price-comp.py: the rows of the two files, and where main *)
(*        stands.                                                          *)
(*   tj_products, wf_products: the two catalogs.                           *)
(*   cmpVariant, item, ..., result: a run of compare_items; cmpPc is its   *)
(*        position, result holds the PriceComparison once it returned and  *)
(*        table the rows display_comparison made of it.                    *)
(*   dd*: one call of _remove_duplicates.                                  *)
(*   ld*: one load of a file by one of the loaders; ldTemp is the dict     *)
(*        temp_products of TJPricesFetcher._load_csv as the row loop left  *)
(*        it.                                                              *)
(***************************************************************************)
VARIABLES rkProducts, rkVariant, rkQuery, rkThreshold, rkRatios, rkFiltered,
          rkMatches, rkDone,
          psRow, psParser, psStore, psResult, psDone,
          mnRowsTJ, mnRowsWF, mnPc,
          tj_products, wf_products,
          cmpVariant, cmpPc, item, tj_matches, wf_matches, comparisons,
          tj_total, wf_total, result, table,
          ddInput, ddOutput, ddDone,
          ldLoader, ldStore, ldRows, ldProducts, ldTemp, ldPc

rkVars == <<rkProducts, rkVariant, rkQuery, rkThreshold, rkRatios, rkFiltered,
            rkMatches, rkDone>>

psVars == <<psRow, psParser, psStore, psResult, psDone>>

mnVars == <<mnRowsTJ, mnRowsWF, mnPc>>

catVars == <<tj_products, wf_products>>

cmpVars == <<cmpVariant, cmpPc, item, tj_matches, wf_matches, comparisons,
             tj_total, wf_total, result, table>>

ddVars == <<ddInput, ddOutput, ddDone>>

ldVars == <<ldLoader, ldStore, ldRows, ldProducts, ldTemp, ldPc>>

vars == <<rkVars, psVars, mnVars, catVars, cmpVars, ddVars, ldVars>>

Variants == {"price-comp", "price_compare", "price_comp2"}

RankIdle ==
    /\ rkProducts = <<>>
    /\ rkVariant = None
    /\ rkQuery = None
    /\ rkThreshold = 0
    /\ rkRatios = <<>>
    /\ rkFiltered = <<>>
    /\ rkMatches = <<>>
    /\ rkDone = FALSE

ParseIdle ==
    /\ psRow = <<>>
    /\ psParser = None
    /\ psStore = None
    /\ psResult = Skip
    /\ psDone = FALSE

MainIdle ==
    /\ mnRowsTJ = <<>>
    /\ mnRowsWF = <<>>
    /\ mnPc = None

CatalogsIdle ==
    /\ tj_products = <<>>
    /\ wf_products = <<>>

CompareIdle ==
    /\ cmpVariant = None
    /\ cmpPc = None
    /\ item = None
    /\ tj_matches = <<>>
    /\ wf_matches = <<>>
    /\ comparisons = <<>>
    /\ tj_total = 0
    /\ wf_total = 0
    /\ result = <<>>
    /\ table = <<>>

DedupIdle ==
    /\ ddInput = <<>>
    /\ ddOutput = <<>>
    /\ ddDone = FALSE

LoadIdle ==
    /\ ldLoader = None
    /\ ldStore = None
    /\ ldRows = <<>>
    /\ ldProducts = <<>>
    /\ ldTemp = <<>>
    /\ ldPc = None

(***************************************************************************)
(* SpecRank: a ranking operation applied to a catalog, for every variant,  *)
(* query and threshold of the sets below.  The catalogs are those of at    *)
(* most MaxCatalog products in at most MaxRuns blocks of equally named     *)
(* products.                                                               *)
(***************************************************************************)
MaxCatalog == 11

MaxRuns == 3

RankNames == {"ABxx", "a-b"}

RankQueries == {"Ab", "-b", "b", ""}

RankThresholds == {DefaultThreshold, 80, 101}

\* the number of blocks of equally named products of a catalog
Runs(products) ==
    Cardinality({i \in 1..Len(products) :
                    i = 1 \/ products[i].name # products[i - 1].name})

RankInit ==
    /\ RankIdle /\ ParseIdle /\ MainIdle /\ CatalogsIdle /\ CompareIdle
    /\ DedupIdle /\ LoadIdle

\* the catalog under construction gets one more product
RankGrow(name) ==
    LET grown == Append(rkProducts, Product(name, 1000, "TJ", None, None, None))
    IN  /\ ~rkDone
        /\ Len(rkProducts) < MaxCatalog
        /\ Runs(grown) <= MaxRuns
        /\ rkProducts' = grown
        /\ UNCHANGED <<rkVariant, rkQuery, rkThreshold, rkRatios, rkFiltered,
                       rkMatches, rkDone>>
        /\ UNCHANGED <<psVars, mnVars, catVars, cmpVars>>
        /\ UNCHANGED <<ddVars, ldVars>>

\* the ranking operation of a variant
FindMatchesOf(variant, query0, products, threshold) ==
    IF variant = "price_comp2"
    THEN find_matches(query0, products, threshold)
    ELSE _find_matches(query0, products, threshold)

\* one call of the ranking operation; rkRatios and rkFiltered are its locals
\* `ratio` (per product) and `matches` (before the sort)
RankCall(variant, query0, threshold) ==
    /\ ~rkDone
    /\ rkVariant' = variant
    /\ rkQuery' = query0
    /\ rkThreshold' = threshold
    /\ rkRatios' = Ratios(Lower(query0), rkProducts)
    /\ rkFiltered' = Matches(Lower(query0), rkProducts, threshold)
    /\ rkMatches' = FindMatchesOf(variant, query0, rkProducts, threshold)
    /\ rkDone' = TRUE
    /\ UNCHANGED rkProducts
    /\ UNCHANGED <<psVars, mnVars, catVars, cmpVars>>
    /\ UNCHANGED <<ddVars, ldVars>>

RankNext ==
    \/ \E name \in RankNames : RankGrow(name)
    \/ \E variant \in Variants, query0 \in RankQueries, threshold \in RankThresholds :
          RankCall(variant, query0, threshold)

SpecRank == RankInit /\ [][RankNext]_vars

(***************************************************************************)
(* SpecParse: every row parser applied to one raw row of either export     *)
(* shape.                                                                  *)
(***************************************************************************)
Absent == "<absent>"

\* the row holding the fields of f that are present
RowOf(f) == [k \in {k \in DOMAIN f : f[k] # Absent} |-> f[k]]

PriceTexts == {Absent, None, "", "0.01", "0.010", "0", "-1.50", "abc", "2.99"}

TitleTexts ==
    {Absent, None, "", "Organic Extra Virgin Olive Oil", "Birthday Card", " Milk "}

\* rows of the Store-A shape (sku, retail_price, item_title, ...)
TJRows ==
    {RowOf([sku |-> "051379", retail_price |-> p, item_title |-> t]) :
        p \in PriceTexts, t \in TitleTexts}

\* rows of the Store-B shape (name, regularPrice, salePrice, ...)
WFRows ==
    {RowOf([name |-> n, regularPrice |-> r, salePrice |-> sp,
            incrementalSalePrice |-> ip, brand |-> "365", uom |-> "lb"]) :
        n \in {Absent, "Banana"},
        r \in {Absent, None, "0", "abc", "-2.00", "3.99"},
        sp \in {Absent, "0", "2.99"},
        ip \in {Absent, "0", "1.99"}}

StoreArgs == {"TJ", "WF", "Trader Joe's", "Whole Foods"}

ParseInit ==
    /\ RankIdle
    /\ MainIdle
    /\ CatalogsIdle
    /\ CompareIdle
    /\ DedupIdle
    /\ LoadIdle
    /\ psRow \in TJRows \cup WFRows
    /\ psParser = None
    /\ psStore = None
    /\ psResult = Skip
    /\ psDone = FALSE

Parsed(parser, store, outcome) ==
    /\ ~psDone
    /\ psParser' = parser
    /\ psStore' = store
    /\ psResult' = outcome
    /\ psDone' = TRUE
    /\ UNCHANGED psRow
    /\ UNCHANGED <<rkVars, mnVars, catVars, cmpVars>>
    /\ UNCHANGED <<ddVars, ldVars>>

\* price-comp.py: _parse_row(row, store)
ParsePc(store) == Parsed("price-comp", store, pc_parse_row(psRow, store))

\* price_compare.py: _parse_row(row, store)
ParsePcmp(store) == Parsed("price_compare", store, pcmp_parse_row(psRow, store))

\* price_comp2.py: the row loop of WFPricesFetcher._load_csv
ParsePc2WF == Parsed("price_comp2", "WF", pc2_wf_row(psRow))

\* price_comp2.py: the row loop of TJPricesFetcher._load_csv
ParsePc2TJ == Parsed("price_comp2", "TJ", pc2_tj_row(psRow))

ParseNext ==
    \/ \E store \in StoreArgs : ParsePc(store)
    \/ \E store \in StoreArgs : ParsePcmp(store)
    \/ ParsePc2WF
    \/ ParsePc2TJ

SpecParse == ParseInit /\ [][ParseNext]_vars

(***************************************************************************)
(* SpecMain: main of price-comp.py up to the call of compare_items: both   *)
(* files are read with the Store-A field names and loaded by load_data.    *)
(***************************************************************************)
MaxRows == 2

MainRows ==
    {[sku |-> "051379", retail_price |-> "2.99", item_title |-> "Birthday Card"],
     [sku |-> "051379", retail_price |-> "0.01", item_title |-> "Birthday Card"],
     [sku |-> "057713", retail_price |-> "0.01",
      item_title |-> "Organic Extra Virgin Olive Oil"],
     [sku |-> "057713", retail_price |-> "abc",
      item_title |-> "Organic Extra Virgin Olive Oil"],
     [sku |-> "051379", retail_price |-> "2.99", item_title |-> None]}

\* the files of at most MaxRows rows
MainFiles == UNION {[1..n -> MainRows] : n \in 0..MaxRows}

MainInit ==
    /\ RankIdle
    /\ ParseIdle
    /\ CatalogsIdle
    /\ CompareIdle
    /\ DedupIdle
    /\ LoadIdle
    /\ mnRowsTJ = <<>>
    /\ mnRowsWF = <<>>
    /\ mnPc = "load_tj"

\* tj_products = await loader.load_data(sys.argv[1], "Trader Joe's", "blue")
MainLoadTJ(rows) ==
    /\ mnPc = "load_tj"
    /\ mnRowsTJ' = rows
    /\ tj_products' = load_data(rows, "Trader Joe's")
    /\ mnPc' = "load_wf"
    /\ UNCHANGED <<mnRowsWF, wf_products>>
    /\ UNCHANGED <<rkVars, psVars, cmpVars>>
    /\ UNCHANGED <<ddVars, ldVars>>

\* wf_products = await loader.load_data(sys.argv[2], "Whole Foods", "green")
MainLoadWF(rows) ==
    /\ mnPc = "load_wf"
    /\ mnRowsWF' = rows
    /\ wf_products' = load_data(rows, "Whole Foods")
    /\ mnPc' = "validate"
    /\ UNCHANGED <<mnRowsTJ, tj_products>>
    /\ UNCHANGED <<rkVars, psVars, cmpVars>>
    /\ UNCHANGED <<ddVars, ldVars>>

\* if not tj_products or not wf_products: sys.exit(1); else compare_items
MainValidate ==
    /\ mnPc = "validate"
    /\ mnPc' = IF tj_products = <<>> \/ wf_products = <<>>
               THEN "exit" ELSE "compare"
    /\ UNCHANGED <<mnRowsTJ, mnRowsWF, catVars>>
    /\ UNCHANGED <<rkVars, psVars, cmpVars>>
    /\ UNCHANGED <<ddVars, ldVars>>

MainNext ==
    \/ \E rows \in MainFiles : MainLoadTJ(rows)
    \/ \E rows \in MainFiles : MainLoadWF(rows)
    \/ MainValidate

SpecMain == MainInit /\ [][MainNext]_vars

(***************************************************************************)
(* Spec: a comparison session, compare_items of the three variants, on     *)
(* loaded catalogs.                                                        *)
(***************************************************************************)
MaxItems == 2

TJ(name, price) == Product(name, price, "TJ", None, None, None)

WF(name, price) == Product(name, price, "WF", None, None, None)

\* the catalog pairs of the sessions
SessionCatalogs ==
    {<< <<TJ("Organic Bananas", 690)>>,
        <<WF("365 Organic Banana", 790)>> >>,
     << <<TJ("Organic Bananas", 690), TJ("Banana Chips", 2490)>>,
        <<WF("Bananas", 690), WF("Whole Milk", 3990)>> >>}

\* what the user types for an item
SessionItems == {"banana", "Milk", "zzz", " "}

Init ==
    /\ RankIdle
    /\ ParseIdle
    /\ MainIdle
    /\ DedupIdle
    /\ LoadIdle
    /\ cmpVariant \in Variants
    /\ \E c \in SessionCatalogs : tj_products = c[1] /\ wf_products = c[2]
    /\ cmpPc = "loop"
    /\ item = None
    /\ tj_matches = <<>>
    /\ wf_matches = <<>>
    /\ comparisons = <<>>
    /\ tj_total = 0
    /\ wf_total = 0
    /\ result = <<>>
    /\ table = <<>>

\* one pass of the loop for an item that is looked up: both catalogs are
\* ranked, the user chooses for each store, the pair is recorded and the
\* totals are updated
CompareItem(text) ==
    /\ cmpPc = "loop"
    /\ Len(comparisons) < MaxItems
    /\ cmpVariant = "price_comp2" => Strip(text) # ""
    /\ LET query0 == IF cmpVariant = "price_comp2" THEN Strip(text) ELSE text
           tjm    == FindMatchesOf(cmpVariant, query0, tj_products, DefaultThreshold)
           wfm    == FindMatchesOf(cmpVariant, query0, wf_products, DefaultThreshold)
       IN  \E tj_product \in SelectionOf(cmpVariant, tjm),
              wf_product \in SelectionOf(cmpVariant, wfm) :
              /\ item' = query0
              /\ tj_matches' = tjm
              /\ wf_matches' = wfm
              /\ comparisons' = Append(comparisons, <<tj_product, wf_product>>)
              /\ tj_total' = AddPrice(tj_total, tj_products, tj_product)
              /\ wf_total' = AddPrice(wf_total, wf_products, wf_product)
              /\ tj_products' = products_after_ranking(query0, tj_products)
              /\ wf_products' = products_after_ranking(query0, wf_products)
    /\ UNCHANGED <<cmpVariant, cmpPc, result, table>>
    /\ UNCHANGED <<rkVars, psVars, mnVars>>
    /\ UNCHANGED <<ddVars, ldVars>>

\* price_comp2.py: an item that is blank after strip() is passed over
SkipBlankItem(text) ==
    /\ cmpPc = "loop"
    /\ cmpVariant = "price_comp2"
    /\ Strip(text) = ""
    /\ item' = Strip(text)
    /\ UNCHANGED <<cmpVariant, cmpPc, tj_matches, wf_matches, comparisons,
                   tj_total, wf_total, result, table>>
    /\ UNCHANGED <<rkVars, psVars, mnVars, catVars>>
    /\ UNCHANGED <<ddVars, ldVars>>

\* the loop ends ('done', no further item) and compare_items returns
Finish ==
    /\ cmpPc = "loop"
    /\ result' = <<PriceComparison(tj_total, wf_total, comparisons)>>
    /\ cmpPc' = "done"
    /\ UNCHANGED <<cmpVariant, item, tj_matches, wf_matches, comparisons,
                   tj_total, wf_total, table>>
    /\ UNCHANGED <<rkVars, psVars, mnVars, catVars>>
    /\ UNCHANGED <<ddVars, ldVars>>

\* comparer.display_comparison(result)
DisplayComparison ==
    /\ cmpPc = "done"
    /\ table' = display_comparison(tj_products, wf_products, result[1])
    /\ cmpPc' = "displayed"
    /\ UNCHANGED <<cmpVariant, item, tj_matches, wf_matches, comparisons,
                   tj_total, wf_total, result>>
    /\ UNCHANGED <<rkVars, psVars, mnVars, catVars>>
    /\ UNCHANGED <<ddVars, ldVars>>

Next ==
    \/ \E text \in SessionItems : CompareItem(text)
    \/ \E text \in SessionItems : SkipBlankItem(text)
    \/ Finish
    \/ DisplayComparison

Spec == Init /\ [][Next]_vars

(***************************************************************************)
(* SpecDedup: _remove_duplicates applied to a list of products.  The lists *)
(* are those of at most MaxDedup products of the pool below, in which the  *)
(* sku tells apart products of the same name and price.                    *)
(***************************************************************************)
MaxDedup == 3

DedupPool ==
    {Product(name, price, "TJ", sku, None, None) :
        name \in {"Milk", "Eggs"}, price \in {10, 2990}, sku \in {"1", "2"}}

DedupInit ==
    /\ RankIdle
    /\ ParseIdle
    /\ MainIdle
    /\ CatalogsIdle
    /\ CompareIdle
    /\ LoadIdle
    /\ ddInput \in UNION {[1..n -> DedupPool] : n \in 0..MaxDedup}
    /\ ddOutput = <<>>
    /\ ddDone = FALSE

\* deduplicated_products = self._remove_duplicates(products)
RemoveDuplicates ==
    /\ ~ddDone
    /\ ddOutput' = _remove_duplicates(ddInput)
    /\ ddDone' = TRUE
    /\ UNCHANGED ddInput
    /\ UNCHANGED <<rkVars, psVars, mnVars, catVars, cmpVars, ldVars>>

DedupNext == RemoveDuplicates

SpecDedup == DedupInit /\ [][DedupNext]_vars

(***************************************************************************)
(* SpecLoad: one file read by one of the loaders.  A file is the sequence  *)
(* of rows csv.DictReader makes of it: every row has the columns of the    *)
(* header, and a column a short line does not reach holds None (columns no *)
(* loader reads are left out).  The files are those of at most MaxFileRows *)
(* rows of one of the headers below.                                       *)
(***************************************************************************)
MaxFileRows == 2

TJRow(title, price, date) ==
    [sku |-> "051379", retail_price |-> price, item_title |-> title,
     inserted_at |-> date]

\* price-comp.py reads every line under the fixed fieldnames sku,
\* retail_price, item_title, inserted_at, ...: its rows have these columns
FixedFieldnames(rows) ==
    \A i \in 1..Len(rows) : DOMAIN rows[i] = DOMAIN TJRow(None, None, None)

\* rows of a Store-A file with a timestamp column
DatedRows ==
    {TJRow("Milk", "2.99", "2024-01-01 00:00:00"),
     TJRow("Milk", "3.49", "2024-06-01 00:00:00"),
     TJRow("Milk", "3.99", "2024-06-01 00:00:00"),
     TJRow("Eggs", "4.99", "2024-01-01 00:00:00"),
     TJRow("Milk", "abc", "2024-06-01 00:00:00"),
     TJRow("Milk", None, None),
     TJRow(None, "2.99", "2024-01-01 00:00:00"),
     TJRow("Milk", "2.49", "06/01/2024"),
     TJRow("Milk", "2.49", ""),
     TJRow("Milk", "2.49", None),
     TJRow("Milk", "0.01", "2024-12-01 00:00:00"),
     TJRow("Milk", "", "2024-12-01 00:00:00")}

\* rows of a Store-A file without a timestamp column
UndatedRows ==
    {[item_title |-> "Milk", retail_price |-> "2.99"],
     [item_title |-> "Milk", retail_price |-> "3.49"],
     [item_title |-> "Eggs", retail_price |-> "abc"]}

\* rows of a Store-B file
StoreBRows ==
    {[name |-> "Banana", regularPrice |-> "3.99", salePrice |-> "0"],
     [name |-> "Apple", regularPrice |-> "abc", salePrice |-> "0"],
     [name |-> "Pear", regularPrice |-> "1.99", salePrice |-> None]}

FilesOf(rows) == UNION {[1..n -> rows] : n \in 0..MaxFileRows}

Files == FilesOf(DatedRows) \cup FilesOf(UndatedRows) \cup FilesOf(StoreBRows)

LoadInit ==
    /\ RankIdle
    /\ ParseIdle
    /\ MainIdle
    /\ CatalogsIdle
    /\ CompareIdle
    /\ DedupIdle
    /\ ldLoader = None
    /\ ldStore = None
    /\ ldRows \in Files
    /\ ldProducts = <<>>
    /\ ldTemp = <<>>
    /\ ldPc = "load"

\* the loader has run on the file: it returned the catalog, or the process
\* has exited
LoadedBy(loader, store, outcome, temp_products) ==
    /\ ldPc = "load"
    /\ ldLoader' = loader
    /\ ldStore' = store
    /\ ldProducts' = outcome.products
    /\ ldTemp' = temp_products
    /\ ldPc' = IF outcome.exit THEN "exit" ELSE "loaded"
    /\ UNCHANGED ldRows
    /\ UNCHANGED <<rkVars, psVars, mnVars, catVars, cmpVars, ddVars>>

\* price-comp.py: loader.load_data(csv_path, store_name, color)
LoadPc(store_name) ==
    /\ FixedFieldnames(ldRows)
    /\ LoadedBy("price-comp", store_name, Loaded(load_data(ldRows, store_name)),
                <<>>)

\* price_compare.py: loader.load_data(csv_path, store_name, color)
LoadPcmp(store_name) ==
    LoadedBy("price_compare", store_name, pcmp_load_data(ldRows, store_name),
             <<>>)

\* price_comp2.py: TJPricesFetcher(csv_path)
LoadTJPricesFetcher ==
    LoadedBy("TJPricesFetcher", None, TJPricesFetcher_load_csv(ldRows),
             TJRows_from(ldRows, 1, <<>>).temp)

\* price_comp2.py: WFPricesFetcher(csv_path)
LoadWFPricesFetcher ==
    LoadedBy("WFPricesFetcher", None, WFPricesFetcher_load_csv(ldRows), <<>>)

LoadNext ==
    \/ \E store_name \in StoreArgs : LoadPc(store_name)
    \/ \E store_name \in StoreArgs : LoadPcmp(store_name)
    \/ LoadTJPricesFetcher
    \/ LoadWFPricesFetcher

SpecLoad == LoadInit /\ [][LoadNext]_vars

(***************************************************************************)
(* Properties of the ranking operations (SpecRank).                        *)
(***************************************************************************)
\* the similarity score of a product for a query: 100 when the lower-cased
\* name contains the lower-cased query, the fuzzy ratio otherwise
Score(query0, name) ==
    IF Contains(Lower(query0), Lower(name)) THEN 100
    ELSE FuzzRatio(Lower(query0), Lower(name))

Range(s) == {s[k] : k \in 1..Len(s)}

MatchScore(k) == Score(rkQuery, rkProducts[rkMatches[k]].name)

\* C1: the returned list is in descending order of the similarity score: no
\* returned product comes after a returned product of strictly lower score.
C1_SortedByScore ==
    rkDone =>
        \A a, b \in 1..Len(rkMatches) : a < b => MatchScore(a) >= MatchScore(b)

\* C2: a product whose lower-cased name contains the lower-cased query is
\* assigned score 100, and so passes the filter for every threshold <= 100,
\* whatever its fuzzy ratio.
C2_SubstringScores100 ==
    rkDone =>
        \A i \in 1..Len(rkProducts) :
            Contains(Lower(rkQuery), Lower(rkProducts[i].name)) =>
                /\ rkRatios[i] = 100
                /\ rkThreshold <= 100 => i \in Range(rkFiltered)

\* C2 witness: a containing product whose fuzzy ratio alone is below the
\* threshold has passed the filter.
C2_Witness ==
    /\ rkDone
    /\ rkThreshold <= 100
    /\ \E i \in Range(rkFiltered) :
          /\ Contains(Lower(rkQuery), Lower(rkProducts[i].name))
          /\ FuzzRatio(Lower(rkQuery), Lower(rkProducts[i].name)) < rkThreshold

\* C3: every ranking operation returns at most 10 candidates.
C3_AtMostTopK == rkDone => Len(rkMatches) <= 10

\* C4: every returned product has score >= threshold; a product whose score
\* is below the threshold is never returned.
C4_ScoresReachThreshold ==
    rkDone => \A k \in 1..Len(rkMatches) : MatchScore(k) >= rkThreshold

\* C4 witness: a call that returned a product and left out a product scoring
\* below the threshold.
C4_Witness ==
    /\ rkDone
    /\ rkMatches # <<>>
    /\ \E i \in 1..Len(rkProducts) :
          /\ Score(rkQuery, rkProducts[i].name) < rkThreshold
          /\ i \notin Range(rkMatches)

(***************************************************************************)
(* Properties of row normalization (SpecParse).                            *)
(***************************************************************************)
\* the row went through a Store-A parser: _parse_row with store 'TJ',
\* _parse_tj_row, or the row loop of TJPricesFetcher._load_csv
ByStoreAParser ==
    /\ psDone
    /\ \/ psParser = "price-comp" /\ psStore = "TJ"
       \/ psParser = "price_compare" /\ psStore # "WF"
       \/ psParser = "price_comp2" /\ psStore = "TJ"

\* the row's retail_price is a number
HasNumericPrice(row) ==
    /\ "retail_price" \in DOMAIN row
    /\ Float(row["retail_price"]).exc = ""

PriceOf(row) == Float(row["retail_price"]).val

Produced == psResult.out # <<>>

\* C5: a Store-A parser rejects every row whose retail_price is numerically
\* <= 0.01, however the number is spelled.
C5_StoreARejectsPlaceholder ==
    ByStoreAParser /\ HasNumericPrice(psRow) /\ PriceOf(psRow) <= 10
        => ~Produced

\* the lower-cased item_title holds a keyword of the allow-list
TitleHasKeyword(row) ==
    LET title == Get(row, "item_title", "")
    IN  /\ title # None
        /\ \E keyword \in meaningful_keywords : Contains(keyword, Lower(title))

\* C6: _parse_row with store 'WF' accepts a row priced exactly 0.01 if and
\* only if its lower-cased item_title contains a keyword of the allow-list.
C6_WFPlaceholderIffKeyword ==
    /\ psDone
    /\ psParser = "price-comp"
    /\ psStore = "WF"
    /\ HasNumericPrice(psRow)
    /\ PriceOf(psRow) = 10
    => (Produced <=> TitleHasKeyword(psRow))

\* C6 witness: price 0.01 with title 'Organic Extra Virgin Olive Oil' has
\* yielded a product of price 0.01.
C6_Witness ==
    /\ psDone
    /\ psParser = "price-comp"
    /\ psStore = "WF"
    /\ "retail_price" \in DOMAIN psRow
    /\ psRow["retail_price"] = "0.01"
    /\ Get(psRow, "item_title", "") = "Organic Extra Virgin Olive Oil"
    /\ Produced
    /\ psResult.out[1].price = 10

\* C8: every product produced by row normalization has a price > 0.
C8_ProducedPricePositive ==
    psDone /\ Produced => psResult.out[1].price > 0

(***************************************************************************)
(* Properties of the catalogs built by main of price-comp.py (SpecMain).   *)
(***************************************************************************)
\* the product's name holds a keyword of the allow-list
NameHasKeyword(product) ==
    \E keyword \in meaningful_keywords : Contains(keyword, Lower(product.name))

\* C7: the catalogs main builds through load_data obey the placeholder
\* rules: no Trader Joe's product has a price <= 0.01, and every Whole Foods
\* product priced 0.01 has an allow-list keyword in its title.
C7_CatalogsObeyPlaceholderRules ==
    /\ \A i \in 1..Len(tj_products) : tj_products[i].price > 10
    /\ \A i \in 1..Len(wf_products) :
           wf_products[i].price = 10 => NameHasKeyword(wf_products[i])

(***************************************************************************)
(* Properties of the returned PriceComparison (Spec).                      *)
(***************************************************************************)
Returned == cmpPc = "done"

\* C9: in every returned PriceComparison, savings is the absolute difference
\* of the two totals, and when the totals differ cheaper_store names the
\* store whose total is strictly lower.
C9_SavingsAndCheaperStore ==
    Returned =>
        LET r == result[1]
        IN  /\ r.tj_total = tj_total
            /\ r.wf_total = wf_total
            /\ r.items = comparisons
            /\ r.savings >= 0
            /\ \/ r.savings = r.tj_total - r.wf_total
               \/ r.savings = r.wf_total - r.tj_total
            /\ r.tj_total < r.wf_total => r.cheaper_store = "TJ"
            /\ r.wf_total < r.tj_total => r.cheaper_store = "WF"

\* C9 witness: a session with a chosen product on both sides has returned
\* with the Trader Joe's total strictly lower, and names 'TJ'.
C9_Witness ==
    /\ Returned
    /\ \E k \in 1..Len(result[1].items) :
           result[1].items[k][1] # 0 /\ result[1].items[k][2] # 0
    /\ result[1].tj_total < result[1].wf_total
    /\ result[1].savings = result[1].wf_total - result[1].tj_total
    /\ result[1].cheaper_store = "TJ"

\* the returned totals are exactly equal
TotalsTie == Returned /\ result[1].tj_total = result[1].wf_total

\* C10 as stated: when the totals are exactly equal, cheaper_store is 'TJ'.
C10_TieNamesStoreA == TotalsTie => result[1].cheaper_store = "TJ"

\* C10: when the two totals are exactly equal at the end of a session,
\* cheaper_store is 'WF' (Whole Foods).
C10_TieNamesStoreB == TotalsTie => result[1].cheaper_store = "WF"

\* C10 witness: a session in which a product was chosen on both sides has
\* returned with equal nonzero totals.
C10_Witness ==
    /\ TotalsTie
    /\ result[1].tj_total > 0
    /\ \E k \in 1..Len(result[1].items) :
           result[1].items[k][1] # 0 /\ result[1].items[k][2] # 0
    /\ result[1].cheaper_store = "WF"

(***************************************************************************)
(* Properties of the running totals (Spec).                                *)
(***************************************************************************)
\* the sum of the prices of one store's chosen products in the item pairs,
\* side 1 being Trader Joe's and side 2 Whole Foods
RECURSIVE ChosenSum(_, _, _)
ChosenSum(pairs, side, products) ==
    IF pairs = <<>> THEN 0
    ELSE LET n      == Len(pairs)
             choice == pairs[n][side]
         IN  ChosenSum(SubSeq(pairs, 1, n - 1), side, products)
             + (IF choice # 0 THEN products[choice].price ELSE 0)

\* C11: each store's running total is the sum of the prices of that store's
\* chosen products in the item pairs recorded so far; an absent choice adds
\* nothing and leaves the other store's addition of the same item in place.
C11_TotalsAreChosenSums ==
    /\ tj_total = ChosenSum(comparisons, 1, tj_products)
    /\ wf_total = ChosenSum(comparisons, 2, wf_products)

\* C11 witness: an item pair with Trader Joe's absent and a Whole Foods
\* product chosen has been recorded, and only the Whole Foods total grew.
C11_Witness ==
    /\ cmpPc = "loop"
    /\ Len(comparisons) = 1
    /\ comparisons[1][1] = 0
    /\ comparisons[1][2] # 0
    /\ tj_matches # <<>>
    /\ tj_total = 0
    /\ wf_total = wf_products[comparisons[1][2]].price
    /\ wf_total > 0

(***************************************************************************)
(* Properties of _remove_duplicates (SpecDedup).                           *)
(***************************************************************************)
SameKey(p, q) == p.name = q.name /\ p.price = q.price

\* C12: the output of _remove_duplicates is no longer than the input, each
\* of its products is a product of the input, and no two of its products
\* have the same (name, price) pair.
C12_DedupBoundedSubsetUnique ==
    ddDone =>
        /\ Len(ddOutput) <= Len(ddInput)
        /\ \A k \in 1..Len(ddOutput) :
               \E i \in 1..Len(ddInput) : ddOutput[k] = ddInput[i]
        /\ \A k, l \in 1..Len(ddOutput) :
               SameKey(ddOutput[k], ddOutput[l]) => k = l

\* C12 witness: an input with two products of one (name, price) pair and a
\* product of another pair has been reduced to a shorter list.
C12_Witness ==
    /\ ddDone
    /\ \E i, j \in 1..Len(ddInput) : i # j /\ SameKey(ddInput[i], ddInput[j])
    /\ \E i, j \in 1..Len(ddInput) : ~SameKey(ddInput[i], ddInput[j])
    /\ Len(ddOutput) = 2
    /\ Len(ddInput) = 3

(***************************************************************************)
(* Properties of the loaders (SpecLoad).                                   *)
(***************************************************************************)
\* what a loader makes of a file
OutcomeOf(loader, store, rows) ==
    CASE loader = "price-comp" -> Loaded(load_data(rows, store))
      [] loader = "price_compare" -> pcmp_load_data(rows, store)
      [] loader = "TJPricesFetcher" -> TJPricesFetcher_load_csv(rows)
      [] loader = "WFPricesFetcher" -> WFPricesFetcher_load_csv(rows)

\* a price or timestamp column of the row holds no number or no date, or
\* its title is missing
MalformedRow(row) ==
    \/ \E key \in DOMAIN row \cap {"retail_price", "regularPrice", "salePrice"} :
           Float(row[key]).exc # ""
    \/ "item_title" \in DOMAIN row /\ row["item_title"] = None
    \/ "inserted_at" \in DOMAIN row /\ Strptime(row["inserted_at"]).exc # ""

\* the load has ended, by a return or by the exit of the process
LoadEnded == ldPc \in {"loaded", "exit"}

\* the row is well formed and the loader makes a product of it when the
\* file holds this row only
Contributes(i) ==
    /\ ~MalformedRow(ldRows[i])
    /\ OutcomeOf(ldLoader, ldStore, <<ldRows[i]>>).products # <<>>

NameOfRow(i) == OutcomeOf(ldLoader, ldStore, <<ldRows[i]>>).products[1].name

\* C13: when exactly one row of the file is malformed the load is not
\* aborted (no exit, no catalog emptied by the row), and every well-formed
\* row that yields a product still has its product in the catalog.
C13_OneBadRowIsSkipped ==
    /\ LoadEnded
    /\ Cardinality({i \in 1..Len(ldRows) : MalformedRow(ldRows[i])}) = 1
    => /\ ldPc = "loaded"
       /\ \A i \in 1..Len(ldRows) :
              Contributes(i) =>
                  \E k \in 1..Len(ldProducts) : ldProducts[k].name = NameOfRow(i)

(***************************************************************************)
(* Properties of the selection (Spec).                                     *)
(***************************************************************************)
Last(s) == s[Len(s)]

\* a step of the loop that has recorded an item pair
PairRecorded == Len(comparisons') = Len(comparisons) + 1

\* the step found candidates in Trader Joe's catalog and the user chose none
DeclinedTJ == tj_matches' # <<>> /\ Last(comparisons')[1] = 0

\* the step found no candidate in Trader Joe's catalog
NoCandidatesTJ == tj_matches' = <<>>

DeclinedWF == wf_matches' # <<>> /\ Last(comparisons')[2] = 0

NoCandidatesWF == wf_matches' = <<>>

\* C14: a step in which the user declines to select for a store ends as a
\* step in which ranking found no candidate for that store: the item pair
\* records the store as absent and the store's running total is unchanged.
C14_DeclineIsNoCandidates ==
    [][PairRecorded =>
          /\ DeclinedTJ \/ NoCandidatesTJ =>
                 /\ comparisons' = Append(comparisons, <<0, Last(comparisons')[2]>>)
                 /\ tj_total' = tj_total
          /\ DeclinedWF \/ NoCandidatesWF =>
                 /\ comparisons' = Append(comparisons, <<Last(comparisons')[1], 0>>)
                 /\ wf_total' = wf_total]_vars

\* C14 witness: in price_comp2.py, after a Whole Foods product was chosen for
\* a first item, 'Skip this item' was answered to several Trader Joe's
\* candidates of a second item.
C14_Witness ==
    /\ cmpVariant = "price_comp2"
    /\ Len(comparisons) = 2
    /\ comparisons[1][1] # 0
    /\ Len(tj_matches) >= 2
    /\ comparisons[2][1] = 0
    /\ tj_total = tj_products[comparisons[1][1]].price

(***************************************************************************)
(* The end-to-end scenario (Spec).                                         *)
(***************************************************************************)
\* catalog A = [Organic Bananas at 0.69], catalog B = [365 Organic Banana at
\* 0.79]
BananaCatalogs ==
    /\ tj_products = <<TJ("Organic Bananas", 690)>>
    /\ wf_products = <<WF("365 Organic Banana", 790)>>

\* the one item of the session was 'banana' and both candidates were chosen
BananaChosen ==
    /\ BananaCatalogs
    /\ item = "banana"
    /\ comparisons = << <<1, 1>> >>

ByStoreBParser ==
    /\ psDone
    /\ psParser \in {"price_compare", "price_comp2"}
    /\ psStore = "WF"

\* the price field is missing from the row or holds a number
NumberOrMissing(row, key) ==
    key \notin DOMAIN row \/ Float(row[key]).exc = ""

\* the value of the price field, a missing field counting as zero
FieldValue(row, key) ==
    IF key \in DOMAIN row THEN Float(row[key]).val ELSE 0

\* the row has a name and its three price fields are numbers or missing
PricedStoreBRow(row) ==
    /\ "name" \in DOMAIN row
    /\ \A key \in {"regularPrice", "salePrice", "incrementalSalePrice"} :
           NumberOrMissing(row, key)

ByTJPricesFetcher == LoadEnded /\ ldLoader = "TJPricesFetcher"

\* the row loop makes a title and a price of the row
AcceptedRow(row) == pc2_tj_row(row).out # <<>>

TitleOf(row) == pc2_tj_row(row).out[1].name

\* the row has no timestamp: no such column, a line too short to reach it,
\* or an empty cell
WithoutTimestamp(row) ==
    "inserted_at" \notin DOMAIN row \/ row["inserted_at"] \in {None, ""}

\* the row's timestamp, a row without one being dated 2000-01-01 00:00:00
DateOf(row) ==
    IF WithoutTimestamp(row) THEN default_inserted_at ELSE row["inserted_at"]

\* a Store-A file in which every row has a well-formed timestamp or none
TimestampsReadable(rows) ==
    \A i \in 1..Len(rows) :
        /\ {"item_title", "retail_price"} \subseteq DOMAIN rows[i]
        /\ Strptime(DateOf(rows[i])).exc = ""

\* row i is the first-seen among the most recent accepted rows of its title
MostRecentFirstSeen(rows, i) ==
    /\ AcceptedRow(rows[i])
    /\ \A j \in 1..Len(rows) :
           AcceptedRow(rows[j]) /\ TitleOf(rows[j]) = TitleOf(rows[i]) /\ j # i =>
               LET di == Strptime(DateOf(rows[i])).val
                   dj == Strptime(DateOf(rows[j])).val
               IN  IF j < i THEN After(di, dj) ELSE ~After(dj, di)

\* C17: TJPricesFetcher._load_csv produces, for each title with an accepted
\* row, exactly one product, priced as the first-seen of the title's most
\* recent accepted rows, a row without a timestamp being dated
\* 2000-01-01 00:00:00.
C17_MostRecentPerTitle ==
    ByTJPricesFetcher /\ TimestampsReadable(ldRows) =>
        /\ ldPc = "loaded"
        /\ \A k \in 1..Len(ldProducts) :
               \E i \in 1..Len(ldRows) :
                   AcceptedRow(ldRows[i]) /\ TitleOf(ldRows[i]) = ldProducts[k].name
        /\ \A i \in 1..Len(ldRows) :
               MostRecentFirstSeen(ldRows, i) =>
                   /\ Cardinality({k \in 1..Len(ldProducts) :
                          ldProducts[k].name = TitleOf(ldRows[i])}) = 1
                   /\ \A k \in 1..Len(ldProducts) :
                          ldProducts[k].name = TitleOf(ldRows[i]) =>
                              ldProducts[k].price = pc2_tj_row(ldRows[i]).out[1].price

(***************************************************************************)
(* The order of _remove_duplicates (SpecDedup).                             *)
(***************************************************************************)
\* the position in the input of the first product with the pair of p
FirstOfKey(p) ==
    CHOOSE i \in 1..Len(ddInput) :
        /\ SameKey(ddInput[i], p)
        /\ \A j \in 1..(i - 1) : ~SameKey(ddInput[j], p)

\* C18: for each (name, price) pair _remove_duplicates keeps the first
\* product of the input carrying it, and the kept products are in the
\* order they have in the input.
C18_FirstKeptInOrder ==
    ddDone =>
        /\ \A i \in 1..Len(ddInput) :
               \E k \in 1..Len(ddOutput) : SameKey(ddOutput[k], ddInput[i])
        /\ \A k \in 1..Len(ddOutput) :
               /\ \E i \in 1..Len(ddInput) : SameKey(ddInput[i], ddOutput[k])
               /\ ddOutput[k] = ddInput[FirstOfKey(ddOutput[k])]
        /\ \A k, l \in 1..Len(ddOutput) :
               k < l => FirstOfKey(ddOutput[k]) < FirstOfKey(ddOutput[l])

\* C18 witness: of two products of one pair with a product of another pair
\* between them, the first and the one between were kept, in this order.
C18_Witness ==
    /\ ddDone
    /\ Len(ddInput) = 3
    /\ SameKey(ddInput[1], ddInput[3])
    /\ ddInput[1] # ddInput[3]
    /\ ~SameKey(ddInput[1], ddInput[2])
    /\ ddOutput = <<ddInput[1], ddInput[2]>>

(***************************************************************************)
(* The name of a Store-A product (SpecParse).                              *)
(***************************************************************************)
\* C19: a product of Store-A normalization is named by the trimmed
\* item_title of its row, and that name is not empty.
C19_StoreANameTrimmedNonEmpty ==
    ByStoreAParser /\ Produced =>
        LET title == Get(psRow, "item_title", "")
        IN  /\ title # None
            /\ psResult.out[1].name = Strip(title)
            /\ psResult.out[1].name # ""

(***************************************************************************)
(* Properties of the results table (Spec).                                 *)
(***************************************************************************)
Displayed == cmpPc = "displayed"

\* the Savings cell of the row of item pair k
SavingsCell(k) == table[k][4]

\* the amount f"${savings:.2f}" of a pair with both products present
PairAmount(pair) ==
    Money(Abs(tj_products[pair[1]].price - wf_products[pair[2]].price))

\* C20: in the table of display_comparison the Savings cell of an item pair
\* holds an amount only when both products are present; with an absent side
\* it is 'N/A', never an amount of zero.
C20_SavingsOnlyForPresentPairs ==
    Displayed =>
        /\ Len(table) = Len(result[1].items) + 1
        /\ \A k \in 1..Len(result[1].items) :
               LET pair == result[1].items[k]
               IN  IF pair[1] # 0 /\ pair[2] # 0
                   THEN /\ Len(SavingsCell(k)) > Len(PairAmount(pair))
                        /\ SubSeq(SavingsCell(k), 1, Len(PairAmount(pair)))
                               = PairAmount(pair)
                   ELSE SavingsCell(k) = "N/A"

\* C20 witness: the table shows a pair with both products and its amount,
\* and a pair with Trader Joe's absent and 'N/A'.
C20_Witness ==
    /\ Displayed
    /\ result[1].items = << <<1, 1>>, <<0, 1>> >>
    /\ BananaCatalogs
    /\ table[1] = <<"Organic Bananas", "Organic Bananas - $0.69",
                    "365 Organic Banana - $0.79", "$0.10 (TJ)">>
    /\ SavingsCell(2) = "N/A"
    /\ table[3] = <<"TOTAL", "$0.69", "$1.58", "$0.89 (TJ)">>

(***************************************************************************)
(* The order and the cut of the ranking operations (SpecRank).             *)
(***************************************************************************)
\* C21: among the returned candidates of equal score, an earlier catalog
\* entry never appears after a later catalog entry.
C21_EqualScoresInCatalogOrder ==
    rkDone =>
        \A a, b \in 1..Len(rkMatches) :
            a < b /\ MatchScore(a) = MatchScore(b) => rkMatches[a] < rkMatches[b]


\* the candidates that are offered: the returned list of _find_matches, the
\* first 10 of the list of find_matches (choices = matches[:10])
Offered == Take(rkMatches, TopK)

ScoreAt(i) == Score(rkQuery, rkProducts[i].name)

\* C22: when more than 10 products pass the threshold, no product that
\* passed and is left out has a strictly higher score than one of the 10
\* that are kept; a product of score 100 is left out only for 10 products
\* of score 100.
C22_CutKeepsHighestScores ==
    rkDone /\ Len(rkFiltered) > TopK =>
        \A i \in Range(rkFiltered) \ Range(Offered) :
            \A k \in Range(Offered) : ScoreAt(i) <= ScoreAt(k)


\* C23: for the empty query the ranking operation returns an empty list,
\* whatever the catalog.
C23_EmptyQueryReturnsNothing ==
    rkDone /\ rkQuery = "" => rkMatches = <<>>


(***************************************************************************)
(* The catalogs during a session (Spec).                                   *)
(***************************************************************************)
\* C24: no step of a session (ranking, selection, aggregation, display)
\* changes either catalog: length, order, names as stored and prices stay
\* what they were when loading finished.
C24_CatalogsNeverModified ==
    [][tj_products' = tj_products /\ wf_products' = wf_products]_vars

\* C24 witness: a session of two items, looked up in lower case, with
\* products chosen and totals shown, has the catalogs it started with.
C24_Witness ==
    /\ Displayed
    /\ cmpVariant = "price-comp"
    /\ comparisons = << <<1, 1>>, <<0, 2>> >>
    /\ item = "Milk"
    /\ wf_matches = <<2>>
    /\ tj_products = <<TJ("Organic Bananas", 690), TJ("Banana Chips", 2490)>>
    /\ wf_products = <<WF("Bananas", 690), WF("Whole Milk", 3990)>>


(***************************************************************************)
(* What the selection step offers (Spec).                                  *)
(***************************************************************************)
\* the selection step of the session's variant offers, for a list of at most
\* 10 candidates, each candidate and 'no selection'
OffersAllAndNone(matches) ==
    matches # <<>> /\ Len(matches) <= TopK =>
        SelectionOf(cmpVariant, matches) = Range(matches) \cup {0}

\* C25: for every non-empty list of candidates ranking has returned for a
\* store, the selection step lets the user choose any of them or none, in
\* _display_matches and in _select_product.
C25_NoSelectionAlwaysOffered ==
    cmpPc = "loop" =>
        /\ OffersAllAndNone(tj_matches)
        /\ OffersAllAndNone(wf_matches)


(***************************************************************************)
(* Where the products of an item pair come from (Spec).                    *)
(***************************************************************************)
\* the choice is absent or one of the candidates, which are the ranking of
\* the store's catalog for the item
CandidateOf(choice, matches, products) ==
    /\ matches = FindMatchesOf(cmpVariant, item', products, DefaultThreshold)
    /\ Range(matches) \subseteq 1..Len(products)
    /\ choice # 0 => choice \in Range(matches)

PriceOfChoice(choice, products) ==
    IF choice # 0 THEN products[choice].price ELSE 0

\* C26: every step that records an item pair records, in the first slot, a
\* product of the Trader Joe's catalog that is among the candidates ranking
\* returned from that catalog for the item, and in the second slot likewise
\* for Whole Foods; each total grows by the price of its own store's product
\* only, and the pairs recorded before are left as they are.
C26_PairsAreCandidatesOfTheirStore ==
    [][PairRecorded =>
          /\ CandidateOf(Last(comparisons')[1], tj_matches', tj_products)
          /\ CandidateOf(Last(comparisons')[2], wf_matches', wf_products)
          /\ tj_total' = tj_total + PriceOfChoice(Last(comparisons')[1], tj_products)
          /\ wf_total' = wf_total + PriceOfChoice(Last(comparisons')[2], wf_products)
          /\ SubSeq(comparisons', 1, Len(comparisons)) = comparisons]_vars

\* C26 witness: for the item 'Milk' ranking returned nothing from Trader
\* Joe's and Whole Milk from Whole Foods; the pair recorded after the pair of
\* the first item holds Whole Milk in the second slot and its price went to
\* the Whole Foods total only.
C26_Witness ==
    /\ cmpPc = "loop"
    /\ item = "Milk"
    /\ tj_matches = <<>>
    /\ wf_matches = <<2>>
    /\ wf_products[2].name = "Whole Milk"
    /\ comparisons = << <<2, 1>>, <<0, 2>> >>
    /\ tj_total = 2490
    /\ wf_total = 690 + 3990


(***************************************************************************)
(* Rows the recency-by-name loader passes over (SpecLoad).                 *)
(***************************************************************************)
\* the row is passed over as placeholder or unparsable: its retail_price is
\* empty, '0.01' or not a number
SkippedRow(row) ==
    /\ "item_title" \in DOMAIN row
    /\ pc2_tj_row(row) = Skip

\* the rows of the file that are not passed over, in their order
WithoutSkipped(rows) == SelectSeq(rows, LAMBDA row : ~SkippedRow(row))

\* the entry is made of the title, price and timestamp of the row
EntryFrom(entry, row) ==
    /\ AcceptedRow(row)
    /\ entry.title = TitleOf(row)
    /\ entry.price = pc2_tj_row(row).out[1].price
    /\ entry.date = Get(row, "inserted_at", default_inserted_at)

\* C27: in TJPricesFetcher._load_csv a row that is passed over (empty
\* retail_price, '0.01', non-numeric) has no effect on the entries kept:
\* every entry holds the price and date of an accepted row of its title,
\* every title with an accepted row keeps an entry, and the load ends as the
\* load of the file without the passed-over rows, whatever their timestamps.
C27_SkippedRowLeavesEntry ==
    ByTJPricesFetcher =>
        /\ \A k \in 1..Len(ldTemp) :
               \E i \in 1..Len(ldRows) : EntryFrom(ldTemp[k], ldRows[i])
        /\ ldPc = "loaded" =>
               \A i \in 1..Len(ldRows) :
                   AcceptedRow(ldRows[i]) =>
                       \E k \in 1..Len(ldTemp) :
                           ldTemp[k].title = TitleOf(ldRows[i])
        /\ ldTemp = TJRows_from(WithoutSkipped(ldRows), 1, <<>>).temp
        /\ [exit |-> ldPc = "exit", products |-> ldProducts]
               = TJPricesFetcher_load_csv(WithoutSkipped(ldRows))

\* C27 witness: Milk at 2.99 dated 2024-01-01 is followed by a Milk row of
\* price '0.01' dated 2024-12-01; the entry kept is the first row's.
C27_Witness ==
    /\ ByTJPricesFetcher
    /\ ldPc = "loaded"
    /\ ldRows = <<TJRow("Milk", "2.99", "2024-01-01 00:00:00"),
                  TJRow("Milk", "0.01", "2024-12-01 00:00:00")>>
    /\ ldTemp = <<[title |-> "Milk", price |-> 2990,
                   date |-> "2024-01-01 00:00:00"]>>
    /\ ldProducts = <<TJ("Milk", 2990)>>

=============================================================================
